---- MODULE Spec2Model ----
(***************************************************************************)
(* MassSpecGym: the data module's train/val/test split                     *)
(* (massspecgym/datasets.py), the training-loop base class                 *)
(* (massspecgym/models/base.py) and the simulation model's batch metric    *)
(* reduction (massspecgym/models/simulation/base.py).                      *)
(***************************************************************************)
EXTENDS Integers, Sequences, FiniteSets, TLC

VARIABLES
    \* ---- MassSpecDataModule and the files it reads
    file_cols,      \* columns of the csv at split_pth
    file_rows,      \* its rows, each [id, fold]
    spectra_idx,    \* dataset.spectra_idx
    split,          \* self.split
    train_dataset,  \* indices of self.train_dataset
    val_dataset,    \* indices of self.val_dataset
    test_dataset,   \* indices of self.test_dataset
    dm_last,        \* the data module method that ran last
    dm_err,         \* the exception it raised, "none" if it returned
    \* ---- SimulationMassSpecGymModel seen through MassSpecGymModel's hooks
    hparams,        \* self.hparams: train_sample_weight, eval_sample_weight
    hook,           \* the framework hook that ran last and what it returned
    delegate,       \* the subclass method it called, its metric_pref, its result
    reduced,        \* the last application of a batch reduction function
    logged,         \* the last self.log(name, value) of step
    \* ---- MassSpecGymModel._update_metric
    attrs,          \* the model's attributes by name (hasattr / getattr / setattr)
    next_id,        \* identity of the next object instantiated
    metric_logged,  \* names passed to self.log by _update_metric
    metric_err,     \* the exception _update_metric raised, "none" if it returned
    n_calls,        \* number of _update_metric calls made by the subclass
    history         \* per name: what the calls so far did (for the properties)

dm_vars == <<file_cols, file_rows, spectra_idx, split, train_dataset,
             val_dataset, test_dataset, dm_last, dm_err>>

sim_vars == <<hparams, hook, delegate, reduced, logged>>

metric_vars == <<attrs, next_id, metric_logged, metric_err, n_calls, history>>

vars == <<dm_vars, sim_vars, metric_vars>>

----------------------------------------------------------------------------
(* Bounds *)

MaxRows == 3
MaxSpectra == 2
MaxBatch == 2
MaxCalls == 3

(* Input alphabets *)
Ids == {1, 2, 3}
Folds == {"train", "val", "test"}
FoldVals == Folds \cup {"dev"}
ColSets == {{"id", "fold"}, {"id", "fold", "smiles"}, {"id", "split"}}
Row == [id : Ids, fold : FoldVals]

RECURSIVE SeqsUpTo(_, _)
SeqsUpTo(S, n) ==
    IF n = 0 THEN {<<>>}
    ELSE SeqsUpTo(S, n - 1) \cup [1..n -> S]

\* Rows of the csv file at split_pth, listed by id. The rows are read by the
\* two set() calls and by the label lookup self.split[i], which returns the
\* rows of a label in file order: the relative order of rows with different
\* ids is not observable, the order of rows with the same id is kept free.
SplitFiles ==
    {rs \in SeqsUpTo(Row, MaxRows) :
        \A i \in 1..Len(rs), j \in 1..Len(rs) : i < j => rs[i].id <= rs[j].id}

Unset == [kind |-> "unset", rows |-> <<>>]
NoSubset == [kind |-> "unset", indices |-> <<>>]

----------------------------------------------------------------------------
(* SimulationMassSpecGymModel: batch metric reduction and step *)

ScoreVals == {1, 2}
WeightVals == {0, 1, 2}
BatchIdxs == {0}

\* a batch as step reads it: the per-sample cosine distances loss_fn yields
\* for it and batch["weight"]. A data loader yields no empty batch (and
\* torch.max(pred_batch_idxs) would raise on one).
Batches ==
    UNION {[loss : [1..n -> ScoreVals], weight : [1..n -> WeightVals]] : n \in 1..MaxBatch}

None == [kind |-> "None"]

\* torch.ones_like(weights)
ones_like(w) == [i \in 1..Len(w) |-> 1]

\* torch.sum(t, dim=0)
RECURSIVE torch_sum(_)
torch_sum(t) == IF t = <<>> THEN 0 ELSE Head(t) + torch_sum(Tail(t))

\* scores * weights
mul(s, w) == [i \in 1..Len(s) |-> s[i] * w[i]]

RECURSIVE GCD(_, _)
GCD(a, b) == IF b = 0 THEN a ELSE GCD(b, a % b)

Sign(a) == IF a > 0 THEN 1 ELSE IF a < 0 THEN -1 ELSE 0
Abs(a) == IF a < 0 THEN -a ELSE a

\* a / b on tensors: the quotient in lowest terms; den = 0 is nan (0/0) or
\* a signed infinity
TrueDiv(a, b) ==
    IF b = 0 THEN [num |-> Sign(a), den |-> 0]
    ELSE LET g == GCD(Abs(a), Abs(b)) IN
         [num |-> (Sign(b) * a) \div g, den |-> Abs(b) \div g]

\* variant: the weights are used whatever sample_weight says
batch_metric_reduce_weighted(sample_weight, scores, weights) ==
    LET w_total == torch_sum(weights)
        w_score_total == torch_sum(mul(scores, weights))
    IN <<TrueDiv(w_score_total, w_total), w_score_total, w_total>>

\* _batch_metric_reduce(scores, weights) of get_batch_metric_reduce_fn(sample_weight)
batch_metric_reduce(sample_weight, scores, weights) ==
    LET w == IF ~sample_weight THEN ones_like(weights) ELSE weights
        w_total == torch_sum(w)
        w_score_total == torch_sum(mul(scores, w))
        w_mean == TrueDiv(w_score_total, w_total)
    IN <<w_mean, w_score_total, w_total>>

\* self.train_reduce_fn, self.eval_reduce_fn as _setup_metric_fns builds them
train_reduce_fn_flag == hparams.train_sample_weight
eval_reduce_fn_flag == hparams.eval_sample_weight

\* reduce_fn = self.train_reduce_fn if metric_pref == "train_" else self.eval_reduce_fn
reduce_fn_flag(metric_pref) ==
    IF metric_pref = "train_" THEN train_reduce_fn_flag ELSE eval_reduce_fn_flag

\* SimulationMassSpecGymModel.step: what it returns, logs and reduces
step(batch, metric_pref) ==
    LET sw == reduce_fn_flag(metric_pref)
        out == batch_metric_reduce(sw, batch.loss, batch.weight)
        mean_loss == out[1]
    IN [ret |-> [kind |-> "out_d", loss |-> mean_loss],
        log |-> [name |-> metric_pref \o "loss_step", value |-> mean_loss],
        reduced |-> [sample_weight |-> sw, scores |-> batch.loss,
                     weights |-> batch.weight, ret |-> out]]

\* SimulationMassSpecGymModel.on_batch_end: pass
on_batch_end(outputs, batch, batch_idx, metric_pref) == None

(* MassSpecGymModel: the framework hooks *)

\* self.step(batch, metric_pref="train_")
training_step_pref == "train_"
\* variant: validation_step with the training prefix
validation_step_pref_slip == "train_"
\* self.step(batch, metric_pref="val_")
validation_step_pref == "val_"
\* self.on_batch_end(*args, **kwargs, metric_pref="train_")
on_train_batch_end_pref == "train_"
\* self.on_batch_end(*args, **kwargs, metric_pref="val_")
on_validation_batch_end_pref == "val_"

\* the hooks the training loop calls once per batch: the step, then the
\* batch-end hook of the same stage with the step's outputs
StepHooks == {"training_step", "validation_step"}

StepHook(name, batch, metric_pref) ==
    \E r \in {step(batch, metric_pref)} :
    /\ delegate' = [fn |-> "step", metric_pref |-> metric_pref,
                    args |-> <<batch>>, ret |-> r.ret]
    /\ hook' = [name |-> name, args |-> <<batch>>, ret |-> r.ret]
    /\ logged' = r.log
    /\ reduced' = r.reduced
    /\ UNCHANGED hparams
    /\ UNCHANGED <<dm_vars, metric_vars>>

BatchEndHook(name, outputs, batch, batch_idx, metric_pref) ==
    \E r \in {on_batch_end(outputs, batch, batch_idx, metric_pref)} :
    /\ delegate' = [fn |-> "on_batch_end", metric_pref |-> metric_pref,
                    args |-> <<outputs, batch, batch_idx>>, ret |-> r]
    /\ hook' = [name |-> name, args |-> <<outputs, batch, batch_idx>>, ret |-> r]
    /\ UNCHANGED <<hparams, logged, reduced>>
    /\ UNCHANGED <<dm_vars, metric_vars>>

training_step ==
    /\ hook.name \notin StepHooks
    /\ \E batch \in Batches : StepHook("training_step", batch, training_step_pref)

validation_step ==
    /\ hook.name \notin StepHooks
    /\ \E batch \in Batches : StepHook("validation_step", batch, validation_step_pref)

on_train_batch_end ==
    /\ hook.name = "training_step"
    /\ \E batch_idx \in BatchIdxs :
        BatchEndHook("on_train_batch_end", hook.ret, hook.args[1], batch_idx,
                     on_train_batch_end_pref)

on_validation_batch_end ==
    /\ hook.name = "validation_step"
    /\ \E batch_idx \in BatchIdxs :
        BatchEndHook("on_validation_batch_end", hook.ret, hook.args[1], batch_idx,
                     on_validation_batch_end_pref)

----------------------------------------------------------------------------
(* MassSpecDataModule *)

\* pd.read_csv(self.split_pth)
read_csv == [kind |-> "frame", rows |-> file_rows]

\* set(self.split.columns) != {'id', 'fold'}
BadColumns == file_cols # {"id", "fold"}

\* self.split.set_index('id')['fold']
set_index(frame) == [kind |-> "series", rows |-> frame.rows]

\* set(self.split): the values of the fold series
ValueSet(series) == {series.rows[r].fold : r \in 1..Len(series.rows)}

\* variant: only foreign values are rejected, missing folds are not
BadFolds_subset(series) == ~(ValueSet(series) \subseteq {"train", "val", "test"})

\* set(self.split) != {'train', 'val', 'test'}
BadFolds(series) == ValueSet(series) # {"train", "val", "test"}

prepare_data ==
    /\ dm_err = "none"
    /\ dm_last' = "prepare_data"
    /\ IF BadColumns
       THEN /\ split' = read_csv
            /\ dm_err' = "ValueError"
       ELSE /\ split' = set_index(read_csv)
            /\ dm_err' = IF BadFolds(set_index(read_csv)) THEN "ValueError" ELSE "none"
    /\ UNCHANGED <<file_cols, file_rows, spectra_idx, train_dataset,
                   val_dataset, test_dataset>>
    /\ UNCHANGED <<sim_vars, metric_vars>>

\* self.split[i]: the fold values of the rows labelled i, in file order
RECURSIVE Lookup(_, _)
Lookup(rows, i) ==
    IF rows = <<>> THEN <<>>
    ELSE (IF Head(rows).id = i THEN <<Head(rows).fold>> ELSE <<>>)
         \o Lookup(Tail(rows), i)

\* [self.split[i] for i in self.dataset.spectra_idx]
SplitMask(series, idx) == [p \in 1..Len(idx) |-> Lookup(series.rows, idx[p])]

\* positions of a row of the mask equal to f, once per matching cell
RECURSIVE RowHits(_, _, _)
RowHits(cells, f, pos) ==
    IF cells = <<>> THEN <<>>
    ELSE (IF Head(cells) = f THEN <<pos>> ELSE <<>>) \o RowHits(Tail(cells), f, pos)

\* np.where(split_mask == f)[0]: 0-based row indices in row-major order
RECURSIVE Where(_, _, _)
Where(mask, f, p) ==
    IF p > Len(mask) THEN <<>>
    ELSE RowHits(mask[p], f, p - 1) \o Where(mask, f, p + 1)

\* np.where(split_mask == 'train')[0], ... == 'val', ... == 'test'
train_indices(mask) == Where(mask, "train", 1)
val_indices(mask) == Where(mask, "val", 1)

\* variant: the test subset selected by the validation fold
test_indices_slip(mask) == Where(mask, "val", 1)
test_indices(mask) == Where(mask, "test", 1)

\* the exception setup raises, "none" if it returns: self.split was never
\* set, an id has no row (KeyError), or the lookups return different numbers
\* of rows, which np.array rejects as a ragged list (numpy 1.24, setup.py)
SetupError ==
    IF split.kind = "unset" THEN "AttributeError"
    ELSE IF \E p \in 1..Len(spectra_idx) : Lookup(split.rows, spectra_idx[p]) = <<>>
         THEN "KeyError"
    ELSE IF \E p, q \in 1..Len(spectra_idx) :
              Len(Lookup(split.rows, spectra_idx[p])) # Len(Lookup(split.rows, spectra_idx[q]))
         THEN "ValueError"
    ELSE "none"

setup ==
    /\ dm_err = "none"
    /\ dm_last' = "setup"
    /\ dm_err' = SetupError
    /\ IF SetupError = "none"
       THEN LET split_mask == SplitMask(split, spectra_idx) IN
            /\ train_dataset' = [kind |-> "subset", indices |-> train_indices(split_mask)]
            /\ val_dataset'   = [kind |-> "subset", indices |-> val_indices(split_mask)]
            /\ test_dataset'  = [kind |-> "subset", indices |-> test_indices(split_mask)]
       ELSE UNCHANGED <<train_dataset, val_dataset, test_dataset>>
    /\ UNCHANGED <<file_cols, file_rows, spectra_idx, split>>
    /\ UNCHANGED <<sim_vars, metric_vars>>

----------------------------------------------------------------------------
(* MassSpecGymModel._update_metric *)

\* names the subclass passes, one of them the sample counter of another
\* and one an attribute every LightningModule has
Names == {"acc", "acc_n_samples", "device"}
MetricClasses == {"SumMetric", "MeanMetric"}

\* update_args: a one-tuple holding the batch's values, for batches of 1 to 3
\* samples
UpdateArgs == {<< <<1>> >>, << <<2, 1>> >>, << <<1, 1, 2>> >>}

\* every name an update can reach
AllNames == Names \cup {n \o "_n_samples" : n \in Names}

\* attributes of the model before any metric is added: self.device
BuiltinAttrs == "device" :> [kind |-> "other"]

NoHistory ==
    [n \in AllNames |-> [instantiated |-> 0, ids |-> {}, updates |-> 0,
                         direct |-> 0, samples |-> 0, counted |-> 0]]

\* variant: the attribute is never found, a metric is built on every call
hasattr_never(a, name) == FALSE

\* hasattr(self, name)
hasattr(a, name) == name \in DOMAIN a

\* metric_class(**metric_kwargs).to(self.device)
NewMetric(metric_class, id) ==
    [kind |-> "metric", class |-> metric_class, id |-> id,
     sum_value |-> 0, weight |-> 0, update_count |-> 0]

\* metric(*update_args): SumMetric adds the values, MeanMetric adds the values
\* and their number
Forward(metric, values) ==
    [metric EXCEPT !.sum_value = @ + torch_sum(values),
                   !.weight = IF metric.class = "MeanMetric" THEN @ + Len(values) ELSE @,
                   !.update_count = @ + 1]

\* variant: the length of the tuple instead of that of its first element
n_samples_args_tuple_len(update_args) == <<Len(update_args)>>

\* update_args=(len(update_args[0]),)
n_samples_args(update_args) == <<Len(update_args[1])>>

\* lines 81-104 of _update_metric on state st = [attrs, next_id, logged, err, history]
UpdateBody(st, name, metric_class, values, log) ==
    LET exists == hasattr(st.attrs, name)
        metric == IF exists THEN st.attrs[name] ELSE NewMetric(metric_class, st.next_id)
        h == st.history[name]
        h1 == IF exists THEN h ELSE [h EXCEPT !.instantiated = @ + 1]
    IN  IF metric.kind # "metric"
        THEN [st EXCEPT !.err = "TypeError"]
        ELSE [attrs |-> (name :> Forward(metric, values)) @@ st.attrs,
              next_id |-> IF exists THEN st.next_id ELSE st.next_id + 1,
              logged |-> IF log THEN st.logged \cup {name} ELSE st.logged,
              err |-> "none",
              history |-> [st.history EXCEPT ![name] =
                              [h1 EXCEPT !.ids = @ \cup {metric.id}, !.updates = @ + 1]]]

\* _update_metric(name, metric_class, update_args, log=log, log_n_samples=...)
UpdateMetric(st, name, metric_class, update_args, log, log_n_samples) ==
    LET st0 == [st EXCEPT !.history[name].direct = @ + 1]
        st1 == IF log_n_samples
               THEN UpdateBody([st0 EXCEPT !.history[name].samples = @ + Len(update_args[1]),
                                           !.history[name].counted = @ + 1],
                               name \o "_n_samples", "SumMetric",
                               n_samples_args(update_args), TRUE)
               ELSE st0
    IN  IF st1.err # "none" THEN st1
        ELSE UpdateBody(st1, name, metric_class, update_args[1], log)

_update_metric ==
    /\ metric_err = "none"
    /\ n_calls < MaxCalls
    /\ \E name \in Names, metric_class \in MetricClasses, update_args \in UpdateArgs,
          log \in BOOLEAN, log_n_samples \in BOOLEAN :
          LET st == UpdateMetric([attrs |-> attrs, next_id |-> next_id,
                                  logged |-> metric_logged, err |-> "none",
                                  history |-> history],
                                 name, metric_class, update_args, log, log_n_samples)
          IN /\ attrs' = st.attrs
             /\ next_id' = st.next_id
             /\ metric_logged' = st.logged
             /\ metric_err' = st.err
             /\ history' = st.history
    /\ n_calls' = n_calls + 1
    /\ UNCHANGED <<dm_vars, sim_vars>>

----------------------------------------------------------------------------
(* Specifications: each starts from the constructed objects and runs one     *)
(* component, the others staying as constructed.                             *)

DataIdle ==
    /\ file_cols = {"id", "fold"}
    /\ file_rows = <<>>
    /\ spectra_idx = <<>>
    /\ split = Unset
    /\ train_dataset = NoSubset
    /\ val_dataset = NoSubset
    /\ test_dataset = NoSubset
    /\ dm_last = "__init__"
    /\ dm_err = "none"

SimIdle ==
    /\ hparams = [train_sample_weight |-> TRUE, eval_sample_weight |-> FALSE]
    /\ hook = [name |-> "__init__", args |-> <<>>, ret |-> None]
    /\ delegate = [fn |-> "none", metric_pref |-> "", args |-> <<>>, ret |-> None]
    /\ reduced = [sample_weight |-> FALSE, scores |-> <<>>, weights |-> <<>>, ret |-> <<>>]
    /\ logged = [name |-> "", value |-> None]

MetricIdle ==
    /\ attrs = BuiltinAttrs
    /\ next_id = 1
    /\ metric_logged = {}
    /\ metric_err = "none"
    /\ n_calls = 0
    /\ history = NoHistory

DataInit ==
    /\ SimIdle
    /\ MetricIdle
    /\ file_cols \in ColSets
    /\ file_rows \in SplitFiles
    /\ spectra_idx \in SeqsUpTo(Ids, MaxSpectra)
    /\ split = Unset
    /\ train_dataset = NoSubset
    /\ val_dataset = NoSubset
    /\ test_dataset = NoSubset
    /\ dm_last = "__init__"
    /\ dm_err = "none"

DataNext == prepare_data \/ setup

DataSpec == DataInit /\ [][DataNext]_vars

SimInit ==
    /\ DataIdle
    /\ MetricIdle
    /\ hparams \in [train_sample_weight : BOOLEAN, eval_sample_weight : BOOLEAN]
    /\ hook = [name |-> "__init__", args |-> <<>>, ret |-> None]
    /\ delegate = [fn |-> "none", metric_pref |-> "", args |-> <<>>, ret |-> None]
    /\ reduced = [sample_weight |-> FALSE, scores |-> <<>>, weights |-> <<>>, ret |-> <<>>]
    /\ logged = [name |-> "", value |-> None]

SimNext ==
    \/ training_step
    \/ validation_step
    \/ on_train_batch_end
    \/ on_validation_batch_end

SimSpec == SimInit /\ [][SimNext]_vars

MetricInit == DataIdle /\ SimIdle /\ MetricIdle

MetricNext == _update_metric

MetricSpec == MetricInit /\ [][MetricNext]_vars

----------------------------------------------------------------------------
(* Properties *)

IndexSet(ds) == {ds.indices[k] : k \in 1..Len(ds.indices)}

RowsOf(id) == {r \in 1..Len(file_rows) : file_rows[r].id = id}

\* every id of dataset.spectra_idx is on exactly one row of the split file
IdsOnce == \A p \in 1..Len(spectra_idx) : Cardinality(RowsOf(spectra_idx[p])) = 1

\* the fold the split file gives to the spectrum at 0-based position i
FileFold(i) == file_rows[CHOOSE r \in RowsOf(spectra_idx[i + 1]) : TRUE].fold

SubsetOf(f) ==
    IF f = "train" THEN train_dataset ELSE IF f = "val" THEN val_dataset ELSE test_dataset

\* C1: once prepare_data has succeeded and setup has run, with every id of
\* dataset.spectra_idx on exactly one row of the split file, the train, val
\* and test subsets partition the positions 0..len(dataset)-1: they are
\* pairwise disjoint, list no position twice, cover every position, and
\* position i is in the subset of fold f exactly when the file maps
\* spectra_idx[i] to f.
C1_SplitPartitions ==
    (dm_last = "setup" /\ dm_err = "none" /\ IdsOnce) =>
        LET Positions == 0..(Len(spectra_idx) - 1) IN
        /\ split.kind = "series"
        /\ \A f \in Folds :
              /\ SubsetOf(f).kind = "subset"
              /\ IndexSet(SubsetOf(f)) = {i \in Positions : FileFold(i) = f}
              /\ Cardinality(IndexSet(SubsetOf(f))) = Len(SubsetOf(f).indices)
        /\ \A f, g \in Folds : f # g => IndexSet(SubsetOf(f)) \cap IndexSet(SubsetOf(g)) = {}
        /\ UNION {IndexSet(SubsetOf(f)) : f \in Folds} = Positions

\* setup has split a two-spectrum dataset whose ids are each on one row
C1_Witness ==
    /\ dm_last = "setup" /\ dm_err = "none" /\ IdsOnce
    /\ Len(spectra_idx) = 2
    /\ test_dataset.indices = <<0>>
    /\ train_dataset.indices = <<1>>

FileFoldValues == {file_rows[r].fold : r \in 1..Len(file_rows)}

\* C2: prepare_data raises ValueError whenever the split file's columns are
\* not exactly {id, fold}, raises ValueError whenever the values of the fold
\* column are not exactly {train, val, test}, and returns without error only
\* when both hold.
C2_PrepareDataValidates ==
    dm_last = "prepare_data" =>
        LET cols_ok == \A c \in file_cols \cup {"id", "fold"} :
                          c \in file_cols /\ c \in {"id", "fold"}
            folds_ok == /\ \A f \in FileFoldValues : f \in Folds
                        /\ \A f \in Folds : \E r \in 1..Len(file_rows) : file_rows[r].fold = f
        IN /\ (~cols_ok \/ ~folds_ok) => dm_err = "ValueError"
           /\ (cols_ok /\ folds_ok) => (dm_err = "none" /\ split.kind = "series")
           /\ dm_err \in {"none", "ValueError"}

\* prepare_data has rejected a file with the right columns whose fold column
\* holds only allowed values but not all three
C2_Witness ==
    /\ dm_last = "prepare_data" /\ dm_err = "ValueError"
    /\ file_cols = {"id", "fold"}
    /\ FileFoldValues = {"train", "val"}

RECURSIVE Sigma(_, _)
Sigma(f, n) == IF n = 0 THEN 0 ELSE f[n] + Sigma(f, n - 1)

\* q is the floating-point quotient a / b (nan or a signed infinity when b = 0)
IsQuotient(q, a, b) ==
    IF b = 0 THEN q.den = 0 /\ q.num = (IF a > 0 THEN 1 ELSE IF a < 0 THEN -1 ELSE 0)
    ELSE q.den # 0 /\ q.num * b = a * q.den

\* C3: the reduction function of get_batch_metric_reduce_fn(sample_weight)
\* returns (w_mean, w_score_total, w_total) with w_total = sum(w_i),
\* w_score_total = sum(s_i * w_i), w_mean = w_score_total / w_total when
\* sample_weight is true, and (sum(s_i) / n, sum(s_i), n) whatever the weights
\* when sample_weight is false.
C3_BatchReduce ==
    reduced.ret # <<>> =>
        LET s == reduced.scores
            w == reduced.weights
            n == Len(s)
            ret == reduced.ret
        IN /\ Len(ret) = 3
           /\ IF reduced.sample_weight
              THEN /\ ret[3] = Sigma(w, n)
                   /\ ret[2] = Sigma([i \in 1..n |-> s[i] * w[i]], n)
              ELSE /\ ret[3] = n
                   /\ ret[2] = Sigma(s, n)
           /\ IsQuotient(ret[1], ret[2], ret[3])

\* an unweighted reduction of two scores whose weights are both zero
C3_Witness ==
    /\ reduced.ret # <<>>
    /\ ~reduced.sample_weight
    /\ reduced.scores = <<1, 2>>
    /\ reduced.weights = <<0, 0>>
    /\ reduced.ret = <<[num |-> 3, den |-> 2], 3, 2>>

\* C4: training_step and on_train_batch_end delegate to step / on_batch_end
\* with metric_pref "train_", validation_step and on_validation_batch_end
\* with "val_"; the hook passes its arguments on and returns the delegate's
\* result unchanged, and a step's log name and reduction function are those
\* of its own stage.
C4_HooksDelegate ==
    LET Pref == IF hook.name \in {"training_step", "on_train_batch_end"}
                THEN "train_" ELSE "val_"
    IN hook.name # "__init__" =>
        /\ delegate.metric_pref = Pref
        /\ delegate.fn = (IF hook.name \in StepHooks THEN "step" ELSE "on_batch_end")
        /\ delegate.args = hook.args
        /\ hook.ret = delegate.ret
        /\ hook.name \in StepHooks =>
              /\ logged.name = Pref \o "loss_step"
              /\ logged.value = hook.ret.loss
              /\ reduced.sample_weight =
                    (IF hook.name = "training_step" THEN hparams.train_sample_weight
                     ELSE hparams.eval_sample_weight)

\* a validation step has run where the two stages reduce differently
C4_Witness ==
    /\ hook.name = "validation_step"
    /\ delegate.metric_pref = "val_"
    /\ hparams.train_sample_weight /\ ~hparams.eval_sample_weight
    /\ hook.args[1].weight = <<0, 2>>

\* C5: _update_metric instantiates a metric for a name only if the model has
\* no attribute of that name, and stores it under the name; each name is
\* instantiated at most once, every update for the name goes to that one
\* stored instance, and the instance has received all of them.
C5_MetricInstantiatedOnce ==
    \A n \in AllNames :
        LET h == history[n] IN
        /\ h.instantiated <= 1
        /\ n \in DOMAIN BuiltinAttrs => h.instantiated = 0
        /\ Cardinality(h.ids) <= 1
        /\ h.instantiated = 1 =>
              /\ n \in DOMAIN attrs
              /\ attrs[n].kind = "metric"
              /\ h.ids = {attrs[n].id}
              /\ attrs[n].update_count = h.updates
        /\ h.updates > 0 => h.instantiated = 1
        /\ \A m \in AllNames : (m # n /\ h.ids # {}) => h.ids \cap history[m].ids = {}

\* the counter of "acc" was updated through its own name and through "acc"
C5_Witness ==
    /\ history["acc_n_samples"].direct >= 1
    /\ history["acc"].counted >= 1
    /\ history["acc_n_samples"].updates >= 2
    /\ history["acc_n_samples"].instantiated = 1

\* C6: a call with log_n_samples true first updates the metric named
\* name + "_n_samples" with len(update_args[0]); as long as no call names
\* that counter itself, it is a SumMetric whose value is the total number of
\* samples of the calls for name made with log_n_samples true, and calls with
\* log_n_samples false leave it as it is (absent if there was no other). The
\* counter comes first: it holds the samples of a call whose own update then
\* failed, and where every update of name came from a counted call, the
\* counter was created before name's metric.
C6_SampleCount ==
    \A n \in Names :
        LET c == n \o "_n_samples" IN
        history[c].direct = 0 =>
            IF history[n].counted = 0
            THEN c \notin DOMAIN attrs
            ELSE /\ c \in DOMAIN attrs
                 /\ attrs[c].kind = "metric"
                 /\ attrs[c].class = "SumMetric"
                 /\ attrs[c].sum_value = history[n].samples
                 /\ attrs[c].update_count = history[n].counted
                 /\ (/\ attrs[n].kind = "metric"
                     /\ history[n].updates = history[n].counted) =>
                        attrs[c].id < attrs[n].id

\* "acc" was updated twice with log_n_samples and once without
C6_Witness ==
    /\ history["acc_n_samples"].direct = 0
    /\ history["acc"].counted = 2
    /\ history["acc"].direct = 3
    /\ history["acc"].samples = 5
    /\ attrs["acc_n_samples"].sum_value = 5

====
